---- MODULE Spec2Model ----
(***************************************************************************)
(* Route_Optimizer_v2 front end.                                           *)
(*                                                                         *)
(*   src/frontend/app/page.tsx : the Page component: the View Model held   *)
(*       in React state, fetchRoute (the fetch orchestrator and response   *)
(*       normalizer), the initial-fetch effect, onSubmit, the selectors.   *)
(*   src/unnamed/part_000      : the RouteMap component: buildEdgeKey,     *)
(*       getPriceColor, nodesById, edgeGeometryByKey (Edge Index),         *)
(*       buildRouteSegments (Segment Resolver).                            *)
(*                                                                         *)
(* An optional value (null, undefined, a missing JSON field) is a sequence *)
(* of length 0 (Null) or 1 (Some(v)).                                      *)
(***************************************************************************)
EXTENDS Integers, Sequences, FiniteSets, TLC

\* ------------------------------------------------------------------ bounds
MaxRequests == 3
MaxPathLen == 4
MaxRawLen == 6
MaxEdges == 2
MaxPrice == 6

\* ------------------------------------------------------------ option type
Null == <<>>
Some(v) == <<v>>
IsSome(o) == Len(o) = 1
Get(o) == o[1]

\* --------------------------------------------------------------- locations
NodeIds == {"A", "B", "C"}

\* A NodeId is any string: identifiers that contain the separator of the
\* edge key ("|") and the separator of the segment key ("-").
PipeIds == {"A|B", "B|C"}
DashIds == {"1", "A", "A-B", "B-1"}
AllIds == NodeIds \cup PipeIds \cup DashIds

\* JavaScript compares strings by code unit ("-" is 0x2D, "1" is 0x31, the
\* letters follow, "|" is 0x7C; a proper prefix comes first): the identifiers
\* in ascending order.
CodeUnitOrder == <<"1", "A", "A-B", "A|B", "B", "B-1", "B|C", "C">>

IdRank == [id \in AllIds |->
             CHOOSE k \in 1..Len(CodeUnitOrder) : CodeUnitOrder[k] = id]

StrLt(a, b) == IdRank[a] < IdRank[b]

\* Longitude (x) and latitude (y) of each location; all the values differ.
NodeX == [id \in AllIds |-> 10 * IdRank[id]]
NodeY == [id \in AllIds |-> 10 * IdRank[id] + 5]

NodeOf(id) == [id |-> id, x |-> NodeX[id], y |-> NodeY[id]]

\* ------------------------------------------------------------ RouteMap.tsx
buildEdgeKey(a, b) == IF StrLt(a, b) THEN a \o "|" \o b ELSE b \o "|" \o a

\* Prices are counted in units of 0.0005 dollars, so that the threshold 0.001
\* of getPriceColor is 2 units and a range of 0.0005 is 1 unit.
Epsilon == 2

RECURSIVE Gcd(_, _)
Gcd(a, b) == IF b = 0 THEN a ELSE Gcd(b, a % b)

\* The number num / den (den > 0) in lowest terms: equal numbers, and only
\* they, are equal pairs, as `${hue}` prints equal numbers alike.
Ratio(num, den) ==
  IF num = 0 THEN <<0, 1>>
  ELSE LET g == Gcd(IF num < 0 THEN 0 - num ELSE num, den)
       IN  <<num \div g, den \div g>>

\* Variant: the ratio is not clamped.
getPriceColorMutantNoClamp(price, minPrice, maxPrice) ==
  IF maxPrice - minPrice < Epsilon THEN [h |-> <<202, 1>>, s |-> 75, l |-> 42]
  ELSE [h |-> Ratio(120 * (maxPrice - minPrice) - 120 * (price - minPrice),
                    maxPrice - minPrice),
        s |-> 72, l |-> 40]

\* hsl(h s% l%), h a ratio. normalized = max(0, min(1, (price - minPrice) /
\* (maxPrice - minPrice))) is clamped / (maxPrice - minPrice) below, and
\* hue = 120 - normalized * 120.
getPriceColor(price, minPrice, maxPrice) ==
  IF maxPrice - minPrice < Epsilon THEN [h |-> <<202, 1>>, s |-> 75, l |-> 42]
  ELSE LET over == price - minPrice
           clamped == IF over < 0 THEN 0
                      ELSE IF over > maxPrice - minPrice THEN maxPrice - minPrice
                      ELSE over
       IN  [h |-> Ratio(120 * (maxPrice - minPrice) - 120 * clamped,
                        maxPrice - minPrice),
            s |-> 72, l |-> 40]

\* nodesById[id]: a later node of the list overwrites an earlier one.
nodesById(ns, id) ==
  LET at == {i \in 1..Len(ns) : ns[i].id = id}
  IN  IF at = {} THEN Null
      ELSE Some(ns[CHOOSE i \in at : \A j \in at : j <= i])

SwapLonLat(pt) == <<pt[2], pt[1]>>

EdgePositions(edge, fromNodeData, toNodeData) ==
  IF IsSome(edge.geometry) /\ Len(Get(edge.geometry)) > 0
  THEN [k \in 1..Len(Get(edge.geometry)) |-> SwapLonLat(Get(edge.geometry)[k])]
  ELSE << <<fromNodeData.y, fromNodeData.x>>, <<toNodeData.y, toNodeData.x>> >>

\* The Map after the first n edges of the list have been visited.
RECURSIVE EdgeIndexUpTo(_, _, _)
EdgeIndexUpTo(es, ns, n) ==
  IF n = 0 THEN <<>>
  ELSE LET byKey == EdgeIndexUpTo(es, ns, n - 1)
           edge == es[n]
           fromNodeData == nodesById(ns, edge.from_)
           toNodeData == nodesById(ns, edge.to)
       IN  IF ~IsSome(fromNodeData) \/ ~IsSome(toNodeData) THEN byKey
           ELSE LET key == buildEdgeKey(edge.from_, edge.to)
                    entry == [from |-> edge.from_, to |-> edge.to,
                              positions |-> EdgePositions(edge, Get(fromNodeData),
                                                          Get(toNodeData))]
                IN  (key :> entry) @@ byKey

edgeGeometryByKey(es, ns) == EdgeIndexUpTo(es, ns, Len(es))

\* Variant: only the two end points change places.
ReverseMutantSwapEnds(s) ==
  [k \in 1..Len(s) |-> IF k = 1 THEN s[Len(s)] ELSE IF k = Len(s) THEN s[1] ELSE s[k]]

\* [...edge.positions].reverse(): a reversed copy.
Reverse(s) == [k \in 1..Len(s) |-> s[Len(s) + 1 - k]]

\* Variant: a key without the pair index.
SegmentKeyMutantNoIndex(from_, to_, i) == from_ \o "-" \o to_

\* key: `${from}-${to}-${i}`
SegmentKey(from_, to_, i) == from_ \o "-" \o to_ \o "-" \o ToString(i)

\* Variant: the straight line in [x, y] instead of [y, x].
FallbackMutantLonLat(ns, from_, to_, i) ==
  LET fromNodeData == nodesById(ns, from_)
      toNodeData == nodesById(ns, to_)
  IN  IF ~IsSome(fromNodeData) \/ ~IsSome(toNodeData) THEN <<>>
      ELSE << [key |-> SegmentKey(from_, to_, i), from |-> from_, to |-> to_,
               positions |-> << <<Get(fromNodeData).x, Get(fromNodeData).y>>,
                                <<Get(toNodeData).x, Get(toNodeData).y>> >>] >>

\* The else branch of the loop body: no Edge Index entry for the pair.
FallbackSegment(ns, from_, to_, i) ==
  LET fromNodeData == nodesById(ns, from_)
      toNodeData == nodesById(ns, to_)
  IN  IF ~IsSome(fromNodeData) \/ ~IsSome(toNodeData) THEN <<>>
      ELSE << [key |-> SegmentKey(from_, to_, i), from |-> from_, to |-> to_,
               positions |-> << <<Get(fromNodeData).y, Get(fromNodeData).x>>,
                                <<Get(toNodeData).y, Get(toNodeData).x>> >>] >>

\* One iteration of the loop, for the 0-based pair index i: the segments it
\* pushes (none or one).
SegmentsOfPair(path, byKey, ns, i) ==
  LET from_ == path[i + 1]
      to_ == path[i + 2]
      key == buildEdgeKey(from_, to_)
  IN  IF from_ = to_ THEN <<>>
      ELSE IF key \in DOMAIN byKey
      THEN LET edge == byKey[key]
               positions == IF edge.from = from_ /\ edge.to = to_
                            THEN edge.positions
                            ELSE Reverse(edge.positions)
           IN  << [key |-> SegmentKey(from_, to_, i), from |-> from_, to |-> to_,
                   positions |-> positions] >>
      ELSE FallbackSegment(ns, from_, to_, i)

\* The segments pushed by the iterations 0 .. n-1.
RECURSIVE SegmentsUpTo(_, _, _, _)
SegmentsUpTo(path, byKey, ns, n) ==
  IF n = 0 THEN <<>>
  ELSE SegmentsUpTo(path, byKey, ns, n - 1) \o SegmentsOfPair(path, byKey, ns, n - 1)

buildRouteSegments(path, byKey, ns) ==
  IF Len(path) < 2 THEN <<>> ELSE SegmentsUpTo(path, byKey, ns, Len(path) - 1)

\* ---------------------------------------------------------------- page.tsx
\* Variant: every identifier kept once, at its first occurrence.
CleanedMutantNoRepeat(path, n) ==
  LET first == {i \in 1..n : \A j \in 1..(i - 1) : path[j] # path[i]}
      ord == CHOOSE f \in [1..Cardinality(first) -> first] :
               \A a, b \in 1..Cardinality(first) : a < b => f[a] < f[b]
  IN  [k \in 1..Cardinality(first) |-> path[ord[k]]]

\* The loop of the summaryPath memo over the first n elements of the path.
RECURSIVE Cleaned(_, _)
Cleaned(path, n) ==
  IF n = 0 THEN <<>>
  ELSE LET cleaned == Cleaned(path, n - 1)
           node == path[n]
       IN  IF Len(cleaned) = 0 \/ cleaned[Len(cleaned)] # node
           THEN Append(cleaned, node)
           ELSE cleaned

\* route is Null or Some(route record); the record's path is Null (no path
\* field) or Some(sequence).
summaryPath(r) ==
  IF ~IsSome(r) THEN <<>>
  ELSE IF ~IsSome(Get(r).path) THEN <<>>
  ELSE IF Len(Get(Get(r).path)) = 0 THEN <<>>
  ELSE Cleaned(Get(Get(r).path), Len(Get(Get(r).path)))

\* routePath={route?.path ?? []}
RoutePathProp(r) ==
  IF IsSome(r) /\ IsSome(Get(r).path) THEN Get(Get(r).path) ELSE <<>>

\* What one render of Page and RouteMap derives from the state.
Render(ns, es, r, bp) ==
  LET byKey == edgeGeometryByKey(es, ns)
  IN  [summaryPath |-> summaryPath(r),
       edgeGeometryByKey |-> byKey,
       optimizedSegments |-> buildRouteSegments(RoutePathProp(r), byKey, ns),
       baselineSegments |-> buildRouteSegments(bp, byKey, ns)]


\* ------------------------------------------------- the state of the program
VARIABLES
  nodes, edges, comparison, route, baselinePath,  \* useState, page.tsx 79-83
  from, to,                                       \* useState, page.tsx 85-86
  algorithm, seed,                                \* useState, page.tsx 88-89
  loading, error,                                 \* useState, page.tsx 91-92
  didInitialFetch,                                \* useRef, page.tsx 180
  mounted,                                        \* the component is on screen
  inflight,                                       \* fetchRoute calls awaiting fetch()
  nextId,                                         \* the id the next call gets
  memo,                                           \* what the last render derived
  origin,                                         \* history: the call each field's value came from
  recent,                                         \* history: the last two start/settle events
  lastOutcome,                                    \* history: what the last settled call received
  priceArgs,                                      \* a call of getPriceColor: its arguments
  fuelColor                                       \* and what it returned

viewModel == <<nodes, edges, route, baselinePath, comparison>>
pageState == <<nodes, edges, comparison, route, baselinePath, from, to, algorithm, seed,
               loading, error>>
vars == <<nodes, edges, comparison, route, baselinePath, from, to, algorithm, seed,
          loading, error, didInitialFetch, mounted, inflight, nextId, memo, origin,
          recent, lastOutcome, priceArgs, fuelColor>>

\* ------------------------------------------------ what the server may send
\* What the user picks and types: two of the three algorithms of the select,
\* and a seed that is blank once trimmed.
AlgorithmInputs == {"dijkstra", "greedy"}
SeedInputs == {"42", " "}

\* String.prototype.trim on the seed inputs above.
Trim(s) == IF s = " " THEN "" ELSE s

\* Four points: reversing them is not the same as swapping the two ends.
Geometry4 == << <<1, 2>>, <<3, 4>>, <<5, 6>>, <<7, 8>> >>

NodesAB == <<NodeOf("A"), NodeOf("B")>>
NodesBC == <<NodeOf("B"), NodeOf("C")>>

EdgesAB == <<[from_ |-> "A", to |-> "B", distance |-> 7, geometry |-> Some(Geometry4)]>>

TheComparison ==
  [baseline_fuel_cost |-> 50, optimized_fuel_cost |-> 38, savings_amount |-> 12,
   savings_percent |-> 24]

RouteOf(path, totals, summary) ==
  [path |-> path,
   total_distance |-> IF totals THEN Some(120) ELSE Null,
   fuel_cost |-> IF totals THEN Some(38) ELSE Null,
   summary |-> summary]

TheSummary == [distance_km |-> 99, fuel_cost |-> 77]

\* Well-formed bodies: the optional fields summary, baseline_path and
\* comparison present or absent, an empty path, immediate repeats in a path, a
\* path that ends outside the node list.
FullBodies ==
  { [nodes |-> Some(NodesAB), edges |-> Some(EdgesAB),
     route |-> Some(RouteOf(Some(<<"A", "B">>), TRUE, Null)),
     baseline_path |-> Some(<<"B", "A">>), comparison |-> Some(TheComparison)],
    [nodes |-> Some(NodesBC), edges |-> Some(EdgesAB),
     route |-> Some(RouteOf(Some(<<"B", "B", "C">>), TRUE, Some(TheSummary))),
     baseline_path |-> Null, comparison |-> Null],
    [nodes |-> Some(NodesAB), edges |-> Some(<<>>),
     route |-> Some(RouteOf(Some(<<>>), FALSE, Null)),
     baseline_path |-> Null, comparison |-> Null],
    [nodes |-> Some(NodesAB), edges |-> Some(EdgesAB),
     route |-> Some(RouteOf(Some(<<"B", "C">>), FALSE, Null)),
     baseline_path |-> Some(<<"A", "B">>), comparison |-> Some(TheComparison)] }

\* Bodies that parse as JSON and lack a field the code reads.
PartialBodies ==
  { [nodes |-> Null, edges |-> Some(EdgesAB),
     route |-> Some(RouteOf(Some(<<"A", "B">>), TRUE, Null)),
     baseline_path |-> Null, comparison |-> Null],
    [nodes |-> Some(NodesBC), edges |-> Null,
     route |-> Some(RouteOf(Some(<<"B", "C">>), TRUE, Null)),
     baseline_path |-> Some(<<"C", "B">>), comparison |-> Some(TheComparison)],
    [nodes |-> Some(NodesBC), edges |-> Some(EdgesAB),
     route |-> Null,
     baseline_path |-> Some(<<"C", "B">>), comparison |-> Some(TheComparison)],
    [nodes |-> Some(NodesAB), edges |-> Some(EdgesAB),
     route |-> Some(RouteOf(Null, TRUE, Null)),
     baseline_path |-> Null, comparison |-> Null] }

Bodies == FullBodies \cup PartialBodies

\* How an awaited fetch can end: fetch() rejects, the status is not 2xx,
\* res.json() rejects, or a JSON body arrives.
Outcomes ==
  {[kind |-> k, body |-> Null] : k \in {"network", "status", "parse"}}
  \cup {[kind |-> "json", body |-> Some(b)] : b \in Bodies}

ErrorMessage(kind) ==
  CASE kind = "network" -> "Failed to fetch"
    [] kind = "status" -> "Request failed with status 500"
    [] kind = "parse" -> "Unexpected token < in JSON"
    [] kind = "type" -> "Cannot read properties of undefined"


\* --------------------------------------------------------------- fetchRoute
\* The setters' targets, as one record the continuation threads through.
Current ==
  [nodes |-> nodes, edges |-> edges, route |-> route, baselinePath |-> baselinePath,
   comparison |-> comparison, from |-> from, to |-> to, error |-> error,
   loading |-> loading, origin |-> origin]

NoOrigin == [nodes |-> 0, edges |-> 0, route |-> 0, baselinePath |-> 0, comparison |-> 0]

\* new URLSearchParams(); params.set(...)
Params(useCurrentStartGoal, selectedFrom, selectedTo) ==
  [algorithm |-> algorithm,
   seed |-> IF Trim(seed) # "" THEN Trim(seed) ELSE "42",
   start |-> IF useCurrentStartGoal /\ selectedFrom # "" /\ selectedTo # ""
             THEN Some(selectedFrom) ELSE Null,
   goal |-> IF useCurrentStartGoal /\ selectedFrom # "" /\ selectedTo # ""
            THEN Some(selectedTo) ELSE Null]

\* Variant: the summary is rebuilt from the totals even when one was sent.
BackfillMutantOverwrite(apiRoute) ==
  IF ~IsSome(apiRoute) THEN Null
  ELSE Some([Get(apiRoute) EXCEPT !.summary =
               Some([distance_km |-> IF IsSome(Get(apiRoute).total_distance)
                                     THEN Get(Get(apiRoute).total_distance) ELSE 0,
                     fuel_cost |-> IF IsSome(Get(apiRoute).fuel_cost)
                                   THEN Get(Get(apiRoute).fuel_cost) ELSE 0])])

\* if (!apiRoute.summary) apiRoute.summary = {...}
Backfill(apiRoute) ==
  IF ~IsSome(apiRoute) THEN Null
  ELSE IF IsSome(Get(apiRoute).summary) THEN apiRoute
  ELSE Some([Get(apiRoute) EXCEPT !.summary =
               Some([distance_km |-> IF IsSome(Get(apiRoute).total_distance)
                                     THEN Get(Get(apiRoute).total_distance) ELSE 0,
                     fuel_cost |-> IF IsSome(Get(apiRoute).fuel_cost)
                                   THEN Get(Get(apiRoute).fuel_cost) ELSE 0])])

\* setEdges(data.edges.map(...)): each edge rebuilt from its four fields.
CopyEdges(es) ==
  [k \in 1..Len(es) |-> [from_ |-> es[k].from_, to |-> es[k].to,
                         distance |-> es[k].distance, geometry |-> es[k].geometry]]

\* setNodes(nodesWithFuel)
CommitNodes(st, req, data) ==
  [st EXCEPT !.nodes = Get(data.nodes), !.origin.nodes = req.id]

\* setEdges ... setComparison
CommitRest(st, req, data) ==
  [st EXCEPT !.edges = CopyEdges(Get(data.edges)),
             !.route = Backfill(data.route),
             !.baselinePath = IF IsSome(data.baseline_path)
                              THEN Get(data.baseline_path) ELSE <<>>,
             !.comparison = data.comparison,
             !.origin.edges = req.id,
             !.origin.route = req.id,
             !.origin.baselinePath = req.id,
             !.origin.comparison = req.id]

\* Variant: first and last element exchanged.
SeedEndpointsMutantSwapped(st, req, path) ==
  [st EXCEPT !.from = IF req.selectedFrom = "" THEN path[Len(path)] ELSE st.from,
             !.to = IF req.selectedTo = "" THEN path[1] ELSE st.to]

\* if (!selectedFrom) setFrom(path[0]); if (!selectedTo) setTo(path[length - 1])
SeedEndpoints(st, req, path) ==
  [st EXCEPT !.from = IF req.selectedFrom = "" THEN path[1] ELSE st.from,
             !.to = IF req.selectedTo = "" THEN path[Len(path)] ELSE st.to]

Thrown(st, kind) == [st |-> st, thrown |-> Some(kind)]
Completed(st) == [st |-> st, thrown |-> Null]

\* The try block after the await, up to its end or to the first throw.
TryBlock(st, req, outcome) ==
  IF outcome.kind # "json" THEN Thrown(st, outcome.kind)
  ELSE
    LET data == Get(outcome.body)
    IN  IF ~IsSome(data.nodes) THEN Thrown(st, "type")
        ELSE
          LET st1 == CommitNodes(st, req, data)
          IN  IF ~IsSome(data.edges) THEN Thrown(st1, "type")
              ELSE
                LET st2 == CommitRest(st1, req, data)
                IN  IF req.useCurrentStartGoal THEN Completed(st2)
                    ELSE IF ~IsSome(data.route) THEN Thrown(st2, "type")
                    ELSE IF ~IsSome(Get(data.route).path) THEN Thrown(st2, "type")
                    ELSE IF Len(Get(Get(data.route).path)) > 0
                    THEN Completed(SeedEndpoints(st2, req, Get(Get(data.route).path)))
                    ELSE Completed(st2)

\* Variant: a catch that also empties the node and edge lists.
CatchBlockMutantClearGraph(st, kind) ==
  [st EXCEPT !.error = Some(ErrorMessage(kind)),
             !.route = Null,
             !.baselinePath = <<>>,
             !.nodes = <<>>,
             !.edges = <<>>,
             !.origin.route = 0,
             !.origin.baselinePath = 0]

\* Variant: a catch that only sets the message.
CatchBlockMutantKeepRoute(st, kind) ==
  [st EXCEPT !.error = Some(ErrorMessage(kind))]

\* catch: setError(...); setRoute(null); setBaselinePath([])
CatchBlock(st, kind) ==
  [st EXCEPT !.error = Some(ErrorMessage(kind)),
             !.route = Null,
             !.baselinePath = <<>>,
             !.origin.route = 0,
             !.origin.baselinePath = 0]

\* Variant: a finally that leaves loading set.
FinallyBlockMutantNoReset(st) == st

\* finally: setLoading(false)
FinallyBlock(st) == [st EXCEPT !.loading = FALSE]

\* Variant: a response is ignored when a later call has been issued.
ContinuationMutantDropStale(st, req, outcome) ==
  LET t == TryBlock(st, req, outcome)
  IN  IF req.id + 1 < nextId THEN FinallyBlock(st)
      ELSE FinallyBlock(IF IsSome(t.thrown) THEN CatchBlock(t.st, Get(t.thrown)) ELSE t.st)

\* Everything fetchRoute does once its await has settled.
Continuation(st, req, outcome) ==
  LET t == TryBlock(st, req, outcome)
  IN  FinallyBlock(IF IsSome(t.thrown) THEN CatchBlock(t.st, Get(t.thrown)) ELSE t.st)

Succeeded(st, req, outcome) == ~IsSome(TryBlock(st, req, outcome).thrown)

\* The history keeps the last two events.
Latest(log, ev) == IF Len(log) < 2 THEN Append(log, ev) ELSE <<log[2], ev>>

\* Every React state update is followed by a render that recomputes the memos.
Rerender == memo' = Some(Render(nodes', edges', route', baselinePath'))

\* setLoading(true); setError(null); ...; await fetch(url)
fetchRouteStart(useCurrentStartGoal, selectedFrom, selectedTo) ==
  /\ nextId <= MaxRequests
  /\ loading' = TRUE
  /\ error' = Null
  /\ inflight' = inflight \cup
       {[id |-> nextId, useCurrentStartGoal |-> useCurrentStartGoal,
         selectedFrom |-> selectedFrom, selectedTo |-> selectedTo,
         params |-> Params(useCurrentStartGoal, selectedFrom, selectedTo)]}
  /\ nextId' = nextId + 1
  /\ recent' = Latest(recent, <<"start", nextId>>)
  /\ UNCHANGED <<nodes, edges, comparison, route, baselinePath, from, to, algorithm, seed,
                 mounted, origin, lastOutcome, priceArgs, fuelColor>>
  /\ Rerender

\* The awaited fetch of one call settles and the rest of fetchRoute runs. It
\* runs whether or not the component is still mounted: the request is never
\* aborted and no flag is consulted.
fetchRouteSettle(req, outcome) ==
  LET st == Continuation(Current, req, outcome)
  IN  /\ req \in inflight
      /\ inflight' = inflight \ {req}
      /\ nodes' = st.nodes
      /\ edges' = st.edges
      /\ route' = st.route
      /\ baselinePath' = st.baselinePath
      /\ comparison' = st.comparison
      /\ from' = st.from
      /\ to' = st.to
      /\ error' = st.error
      /\ loading' = st.loading
      /\ origin' = st.origin
      /\ recent' = Latest(recent, <<IF Succeeded(Current, req, outcome) THEN "ok" ELSE "fail",
                                   req.id>>)
      /\ lastOutcome' = Some(outcome)
      /\ UNCHANGED <<algorithm, seed, didInitialFetch, mounted, nextId, priceArgs, fuelColor>>
      /\ Rerender

Settle == \E req \in inflight : \E outcome \in Outcomes : fetchRouteSettle(req, outcome)

\* ------------------------------------------------- effects and UI handlers
\* useEffect: if (didInitialFetch.current) return; ...; fetchRoute(false, "", "")
InitialFetch ==
  /\ mounted
  /\ ~didInitialFetch
  /\ didInitialFetch' = TRUE
  /\ fetchRouteStart(FALSE, "", "")

\* onSubmit: fetchRoute(true, from, to)
onSubmit ==
  /\ mounted
  /\ didInitialFetch
  /\ UNCHANGED didInitialFetch
  /\ fetchRouteStart(TRUE, from, to)

\* Variant: a button that is not disabled while loading.
SubmitEnabledMutantIgnoreLoading == from # "" /\ to # ""

\* The submit button: disabled={loading || !from || !to}
SubmitEnabled == ~loading /\ from # "" /\ to # ""

ClickSubmit == SubmitEnabled /\ onSubmit

availableNodeIds == {nodes[k].id : k \in 1..Len(nodes)}

Untouched ==
  UNCHANGED <<didInitialFetch, mounted, inflight, nextId, origin, recent, lastOutcome,
              priceArgs, fuelColor>>

\* <select value={from} onChange=...>, disabled while no node is known.
SelectFrom(id) ==
  /\ mounted /\ didInitialFetch
  /\ availableNodeIds # {}
  /\ id \in availableNodeIds
  /\ from' = id
  /\ UNCHANGED <<nodes, edges, comparison, route, baselinePath, to, algorithm, seed,
                 loading, error>>
  /\ Untouched /\ Rerender

SelectTo(id) ==
  /\ mounted /\ didInitialFetch
  /\ availableNodeIds # {}
  /\ id \in availableNodeIds
  /\ to' = id
  /\ UNCHANGED <<nodes, edges, comparison, route, baselinePath, from, algorithm, seed,
                 loading, error>>
  /\ Untouched /\ Rerender

SelectAlgorithm(a) ==
  /\ mounted /\ didInitialFetch
  /\ algorithm' = a
  /\ UNCHANGED <<nodes, edges, comparison, route, baselinePath, from, to, seed,
                 loading, error>>
  /\ Untouched /\ Rerender

TypeSeed(s) ==
  /\ mounted /\ didInitialFetch
  /\ seed' = s
  /\ UNCHANGED <<nodes, edges, comparison, route, baselinePath, from, to, algorithm,
                 loading, error>>
  /\ Untouched /\ Rerender

\* React removes the component (navigation away). Neither the effect nor
\* fetchRoute registers a cleanup.
Unmount ==
  /\ mounted
  /\ mounted' = FALSE
  /\ UNCHANGED <<nodes, edges, comparison, route, baselinePath, from, to, algorithm, seed,
                 loading, error, didInitialFetch, inflight, nextId, memo, origin, recent,
                 lastOutcome, priceArgs, fuelColor>>

UserInput ==
  \/ \E id \in NodeIds : SelectFrom(id)
  \/ \E id \in NodeIds : SelectTo(id)
  \/ \E a \in AlgorithmInputs : SelectAlgorithm(a)
  \/ \E s \in SeedInputs : TypeSeed(s)

Init ==
  /\ nodes = <<>> /\ edges = <<>> /\ comparison = Null /\ route = Null
  /\ baselinePath = <<>>
  /\ from = "" /\ to = ""
  /\ algorithm = "dijkstra" /\ seed = "42"
  /\ loading = FALSE /\ error = Null
  /\ didInitialFetch = FALSE
  /\ mounted = TRUE
  /\ inflight = {}
  /\ nextId = 1
  /\ memo = Some(Render(<<>>, <<>>, Null, <<>>))
  /\ origin = NoOrigin
  /\ recent = <<>>
  /\ lastOutcome = Null
  /\ priceArgs = Null
  /\ fuelColor = Null

\* The page as wired: a submit only through the button.
Next == InitialFetch \/ ClickSubmit \/ Settle \/ UserInput \/ Unmount

Spec == Init /\ [][Next]_vars

\* The same page with the submit event delivered to the form directly
\* (onSubmit itself tests nothing), so that calls of fetchRoute overlap. The
\* selectors and the teardown play no part in it and are left out.
NextUngated == InitialFetch \/ onSubmit \/ Settle

SpecUngated == Init /\ [][NextUngated]_vars


\* ----------------------------------------------------- one render in isolation
\* The derived values are functions of the state alone, so they are also
\* checked over every small state a response can leave behind, not only over
\* the bodies above: Init draws nodes, edges, route and baseline path, and the
\* one action is the render.
SeqsUpTo(S, n) == UNION {[1..k -> S] : k \in 0..n}

MapNodes == {NodesAB \o <<NodeOf("C")>>, NodesAB}

\* Locations and connections whose identifiers contain "|", and locations
\* whose identifiers contain "-".
PipeNodes == <<NodeOf("A|B"), NodeOf("C"), NodeOf("A"), NodeOf("B|C")>>

PipeEdgeChoices ==
  {[from_ |-> e[1], to |-> e[2], distance |-> 7, geometry |-> Null] :
     e \in {<<"A|B", "C">>, <<"A", "B|C">>, <<"C", "A|B">>}}

PipePaths == {<<"A|B", "C">>, <<"A", "B|C">>, <<"C", "A", "B|C">>}

DashNodes == <<NodeOf("A"), NodeOf("A-B"), NodeOf("B-1"), NodeOf("1")>>

MapEdgeChoices ==
  {[from_ |-> e[1], to |-> e[2], distance |-> 7, geometry |-> g] :
     e \in {<<"A", "B">>, <<"B", "A">>, <<"B", "C">>, <<"C", "B">>},
     g \in {Null, Some(Geometry4)}}
  \cup {[from_ |-> "A", to |-> "B", distance |-> 7, geometry |-> Some(<<>>)]}

InitRender ==
  /\ \/ /\ nodes \in MapNodes
        /\ edges \in SeqsUpTo(MapEdgeChoices, MaxEdges)
        /\ \E p \in SeqsUpTo(NodeIds, MaxPathLen) :
             route = Some(RouteOf(Some(p), TRUE, Null))
        /\ baselinePath = <<"B", "A">>
     \/ /\ nodes = PipeNodes
        /\ edges \in SeqsUpTo(PipeEdgeChoices, MaxEdges)
        /\ \E p \in PipePaths : route = Some(RouteOf(Some(p), TRUE, Null))
        /\ baselinePath = <<>>
     \/ /\ nodes = DashNodes
        /\ edges = <<>>
        /\ \E p \in SeqsUpTo(DashIds, MaxPathLen) :
             route = Some(RouteOf(Some(p), TRUE, Null))
        /\ baselinePath = <<>>
     \/ /\ nodes = <<>> /\ edges = <<>> /\ baselinePath = <<>>
        /\ \/ route = Null
           \/ route = Some(RouteOf(Null, TRUE, Null))
           \/ \E p \in SeqsUpTo(NodeIds, MaxRawLen) :
                route = Some(RouteOf(Some(p), TRUE, Null))
  /\ comparison = Null
  /\ from = "" /\ to = ""
  /\ algorithm = "dijkstra" /\ seed = "42"
  /\ loading = FALSE /\ error = Null
  /\ didInitialFetch = TRUE
  /\ mounted = TRUE
  /\ inflight = {}
  /\ nextId = 1
  /\ memo = Null
  /\ origin = NoOrigin
  /\ recent = <<>>
  /\ lastOutcome = Null
  /\ priceArgs = Null
  /\ fuelColor = Null

RenderView ==
  /\ memo = Null
  /\ memo' = Some(Render(nodes, edges, route, baselinePath))
  /\ UNCHANGED <<nodes, edges, comparison, route, baselinePath, from, to, algorithm, seed,
                 loading, error, didInitialFetch, mounted, inflight, nextId, origin,
                 recent, lastOutcome, priceArgs, fuelColor>>

SpecRender == InitRender /\ [][RenderView]_vars


\* -------------------------------------------- one price colour in isolation
\* getPriceColor is a function of its three arguments: Init draws them (the
\* page at rest around them) and the one action is the call.
Prices == 0..MaxPrice

InitColor ==
  /\ nodes = <<>> /\ edges = <<>> /\ comparison = Null /\ route = Null
  /\ baselinePath = <<>>
  /\ from = "" /\ to = ""
  /\ algorithm = "dijkstra" /\ seed = "42"
  /\ loading = FALSE /\ error = Null
  /\ didInitialFetch = TRUE
  /\ mounted = TRUE
  /\ inflight = {}
  /\ nextId = 1
  /\ memo = Null
  /\ origin = NoOrigin
  /\ recent = <<>>
  /\ lastOutcome = Null
  /\ \E price, minPrice, maxPrice \in Prices :
       priceArgs = Some([price |-> price, minPrice |-> minPrice, maxPrice |-> maxPrice])
  /\ fuelColor = Null

PaintPrice ==
  /\ IsSome(priceArgs)
  /\ fuelColor = Null
  /\ fuelColor' = Some(getPriceColor(Get(priceArgs).price, Get(priceArgs).minPrice,
                                     Get(priceArgs).maxPrice))
  /\ UNCHANGED <<nodes, edges, comparison, route, baselinePath, from, to, algorithm, seed,
                 loading, error, didInitialFetch, mounted, inflight, nextId, memo, origin,
                 recent, lastOutcome, priceArgs>>

SpecColor == InitColor /\ [][PaintPrice]_vars


\* Settling with fairness: every awaited fetch eventually settles (the
\* browser resolves or rejects the promise).
SpecLive == Spec /\ WF_vars(Settle)

\* ================================================================== claims
LastEvent == recent[Len(recent)]
Happened(kind) == Len(recent) > 0 /\ LastEvent[1] = kind
\* A step that is the start, or the settling, of a call.
StepOf(kind) == recent' # recent /\ recent'[Len(recent')][1] = kind

\* C1. After any failed fetch the state holds route = null, an empty baseline
\* path and no comparison.
C1_FailedFetchClearsAll ==
  Happened("fail") => route = Null /\ baselinePath = <<>> /\ comparison = Null

\* C2. The nodes, edges, route, baseline path and comparison held at any time
\* all come from one single response.
C2_SingleOrigin ==
  \A f, g \in DOMAIN origin :
    origin[f] # 0 /\ origin[g] # 0 => origin[f] = origin[g]

\* What a well-formed body says the View Model is.
SameRoute(held, sent) ==
  IF ~IsSome(sent) THEN held = Null
  ELSE /\ IsSome(held)
       /\ Get(held).path = Get(sent).path
       /\ Get(held).total_distance = Get(sent).total_distance
       /\ Get(held).fuel_cost = Get(sent).fuel_cost

HoldsContentOf(body) ==
  /\ nodes = Get(body.nodes)
  /\ edges = Get(body.edges)
  /\ SameRoute(route, body.route)
  /\ baselinePath = (IF IsSome(body.baseline_path) THEN Get(body.baseline_path) ELSE <<>>)
  /\ comparison = body.comparison

\* C3. When calls overlap and succeed, the View Model is the content of the
\* response that settled last, whatever the order the calls were issued in.
C3_LastResolvedWins ==
  Happened("ok") => HoldsContentOf(Get(Get(lastOutcome).body))

\* Call 1 settled after call 2, which was issued while call 1 was in flight;
\* both succeeded and the state is that of call 1's response.
C3_Witness ==
  /\ recent = << <<"ok", 2>>, <<"ok", 1>> >>
  /\ origin.nodes = 1 /\ origin.route = 1

C5_NoCommitAfterTeardown ==
  [][~mounted => UNCHANGED pageState]_vars

\* C6. Starting a call sets loading and clears error; settling resets loading
\* and either replaces the View Model leaving error alone, or sets error; and
\* loading is eventually false again.
C6_IdleLoadingOutcome ==
  /\ [][StepOf("start") => loading' = TRUE /\ error' = Null]_vars
  /\ [][StepOf("ok") =>
          /\ loading' = FALSE
          /\ error' = error /\ error' = Null
          /\ HoldsContentOf(Get(Get(lastOutcome).body))']_vars
  /\ [][StepOf("fail") => loading' = FALSE /\ error' # Null]_vars
  /\ [](loading => <>(~loading))

\* A second cycle Idle -> Loading -> Success has completed.
C6_Witness ==
  /\ recent = << <<"start", 2>>, <<"ok", 2>> >>
  /\ ~loading /\ error = Null /\ inflight = {}

\* C7. A successful call made without explicit endpoints whose path is not
\* empty sets from (to) to the first (last) path element if it is unset and
\* leaves it alone otherwise; a call made by the form leaves both alone.
C7_SeedOnlyUnset ==
  [][\A req \in inflight :
       (req \notin inflight' /\ StepOf("ok")) =>
         LET sent == Get(Get(lastOutcome').body).route
             path == IF IsSome(sent) /\ IsSome(Get(sent).path)
                     THEN Get(Get(sent).path) ELSE <<>>
         IN  IF ~req.useCurrentStartGoal /\ Len(path) > 0
             THEN /\ from' = (IF from = "" THEN path[1] ELSE from)
                  /\ to' = (IF to = "" THEN path[Len(path)] ELSE to)
             ELSE from' = from /\ to' = to]_vars

\* The initial fetch returned B,B,C and seeded from = B, to = C.
C7_Witness ==
  /\ recent = << <<"start", 1>>, <<"ok", 1>> >>
  /\ RoutePathProp(route) = <<"B", "B", "C">>
  /\ from = "B" /\ to = "C"

\* The n-th smallest element of a set of numbers.
NthOf(S, n) == CHOOSE i \in S : Cardinality({j \in S : j <= i}) = n

\* The pairs of a path, by 0-based index, and what the render drew for them.
PairIndexes(path) == IF Len(path) < 2 THEN {} ELSE 0..(Len(path) - 2)
Drawn(segs, path, i) ==
  {k \in 1..Len(segs) : segs[k].key = SegmentKey(path[i + 1], path[i + 2], i)}
Known(id) == \E k \in 1..Len(nodes) : nodes[k].id = id
IsReversalOf(s, t) ==
  Len(s) = Len(t) /\ \A k \in 1..Len(t) : s[k] = t[Len(t) + 1 - k]

\* The edges of the list that join u and v (either way) between known
\* locations, and those filed under one key.
EdgesJoining(u, v) ==
  {k \in 1..Len(edges) :
     /\ {edges[k].from_, edges[k].to} = {u, v}
     /\ Known(edges[k].from_) /\ Known(edges[k].to)}

EdgesKeyed(key) ==
  {k \in 1..Len(edges) :
     /\ buildEdgeKey(edges[k].from_, edges[k].to) = key
     /\ Known(edges[k].from_) /\ Known(edges[k].to)}

\* The entry is the last edge of the set, with its direction as declared and
\* its geometry in [lat, lon].
IndexedAsDeclared(entry, among) ==
  /\ among # {}
  /\ LET e == edges[NthOf(among, Cardinality(among))]
     IN  /\ entry.from = e.from_ /\ entry.to = e.to
         /\ IF IsSome(e.geometry) /\ Len(Get(e.geometry)) > 0
            THEN /\ Len(entry.positions) = Len(Get(e.geometry))
                 /\ \A k \in 1..Len(entry.positions) :
                      /\ entry.positions[k][1] = Get(e.geometry)[k][2]
                      /\ entry.positions[k][2] = Get(e.geometry)[k][1]
            ELSE entry.positions =
                   << <<NodeY[e.from_], NodeX[e.from_]>>, <<NodeY[e.to], NodeX[e.to]>> >>

\* C8. A pair with an Edge Index entry is drawn with the entry's positions
\* as they are when the entry was declared u -> v, and with the whole sequence
\* reversed otherwise; the entry itself is still the one that was indexed.
C8_ReversedEndToEnd ==
  IsSome(memo) =>
    LET path == RoutePathProp(route)
        byKey == Get(memo).edgeGeometryByKey
        segs == Get(memo).optimizedSegments
    IN  \A i \in PairIndexes(path) :
          LET u == path[i + 1]
              v == path[i + 2]
              key == buildEdgeKey(u, v)
          IN  (u # v /\ key \in DOMAIN byKey) =>
                /\ Cardinality(Drawn(segs, path, i)) = 1
                /\ \A k \in Drawn(segs, path, i) :
                     IF byKey[key].from = u /\ byKey[key].to = v
                     THEN segs[k].positions = byKey[key].positions
                     ELSE IsReversalOf(segs[k].positions, byKey[key].positions)
                /\ IndexedAsDeclared(byKey[key], EdgesKeyed(key))

\* The edge declared A -> B with four points was traversed B -> A.
C8_Witness ==
  /\ IsSome(memo)
  /\ edges = <<[from_ |-> "A", to |-> "B", distance |-> 7, geometry |-> Some(Geometry4)]>>
  /\ RoutePathProp(route) = <<"C", "B", "A">>
  /\ \E k \in 1..Len(Get(memo).optimizedSegments) :
       /\ Get(memo).optimizedSegments[k].key = "B-A-1"
       /\ Get(memo).optimizedSegments[k].positions = << <<8, 7>>, <<6, 5>>, <<4, 3>>, <<2, 1>> >>

\* C9. A pair of different locations without an Edge Index entry is drawn as
\* the straight line [u.y, u.x], [v.y, v.x] when both are known and is not
\* drawn when either is unknown; the pairs after it are still drawn.
C9_FallbackOrSkip ==
  IsSome(memo) =>
    LET path == RoutePathProp(route)
        byKey == Get(memo).edgeGeometryByKey
        segs == Get(memo).optimizedSegments
    IN  \A i \in PairIndexes(path) :
          LET u == path[i + 1]
              v == path[i + 2]
          IN  (u # v /\ buildEdgeKey(u, v) \notin DOMAIN byKey) =>
                IF Known(u) /\ Known(v)
                THEN /\ Cardinality(Drawn(segs, path, i)) = 1
                     /\ \A k \in Drawn(segs, path, i) :
                          segs[k].positions =
                            << <<NodeY[u], NodeX[u]>>, <<NodeY[v], NodeX[v]>> >>
                ELSE Drawn(segs, path, i) = {}

\* C is unknown: the pairs A,C and C,B are skipped and the pair B,A after
\* them is drawn as a straight line.
C9_Witness ==
  /\ IsSome(memo)
  /\ nodes = NodesAB /\ edges = <<>>
  /\ RoutePathProp(route) = <<"A", "C", "B", "A">>
  /\ Len(Get(memo).optimizedSegments) = 1
  /\ Get(memo).optimizedSegments[1].key = "B-A-2"
  /\ Get(memo).optimizedSegments[1].positions =
       << <<NodeY["B"], NodeX["B"]>>, <<NodeY["A"], NodeX["A"]>> >>

\* The elements of a path that do not repeat their predecessor, in order.
Kept(path) == {i \in 1..Len(path) : i = 1 \/ path[i] # path[i - 1]}

\* C10. summaryPath is the raw path with each run of equal neighbours
\* collapsed to one element and nothing else changed; applying it again
\* changes nothing.
C10_CollapseRuns ==
  IsSome(memo) =>
    LET raw == RoutePathProp(route)
        out == Get(memo).summaryPath
    IN  /\ Len(out) = Cardinality(Kept(raw))
        /\ \A n \in 1..Len(out) : out[n] = raw[NthOf(Kept(raw), n)]
        /\ \A n \in 1..(Len(out) - 1) : out[n] # out[n + 1]
        /\ summaryPath(Some(RouteOf(Some(out), TRUE, Null))) = out

C10_Witness ==
  /\ IsSome(memo)
  /\ RoutePathProp(route) = <<"A", "A", "B", "C", "C", "C">>
  /\ Get(memo).summaryPath = <<"A", "B", "C">>

\* The route of the body the last settled call received (Null when it had none).
SentRoute ==
  IF IsSome(lastOutcome) /\ IsSome(Get(lastOutcome).body)
  THEN Get(Get(lastOutcome).body).route ELSE Null

OrZero(o) == IF IsSome(o) THEN Get(o) ELSE 0

\* C11. After a successful fetch whose route came without a summary, the held
\* summary is {distance_km: total_distance, fuel_cost: fuel_cost}, each 0 when
\* the response lacked it; a summary that came with the route is held as sent,
\* whatever the totals say; a held route always has a summary.
C11_SummaryBackfill ==
  /\ IsSome(route) => IsSome(Get(route).summary)
  /\ Happened("ok") /\ IsSome(SentRoute) =>
       /\ IsSome(route)
       /\ Get(route).path = Get(SentRoute).path
       /\ Get(route).total_distance = Get(SentRoute).total_distance
       /\ Get(route).fuel_cost = Get(SentRoute).fuel_cost
       /\ IF IsSome(Get(SentRoute).summary)
          THEN Get(route).summary = Get(SentRoute).summary
          ELSE /\ Get(Get(route).summary).distance_km = OrZero(Get(SentRoute).total_distance)
               /\ Get(Get(route).summary).fuel_cost = OrZero(Get(SentRoute).fuel_cost)

\* A route sent with neither summary nor totals is held with the summary 0, 0.
C11_Witness ==
  /\ Happened("ok")
  /\ IsSome(SentRoute)
  /\ ~IsSome(Get(SentRoute).summary)
  /\ ~IsSome(Get(SentRoute).total_distance)
  /\ IsSome(route)
  /\ Get(route).summary = Some([distance_km |-> 0, fuel_cost |-> 0])

\* The unordered endpoint pairs joined by an edge between known locations.
JoinedPairs ==
  {{edges[k].from_, edges[k].to} :
     k \in {j \in 1..Len(edges) : Known(edges[j].from_) /\ Known(edges[j].to)}}

\* C12. The Edge Index holds exactly one entry per unordered endpoint pair
\* among the edges whose two endpoints are known: A -> B and B -> A share an
\* entry, different pairs never share one, an edge with an unknown endpoint
\* adds none, and the entry of a pair is its last edge in input order.
C12_OneEntryPerPair ==
  IsSome(memo) =>
    LET byKey == Get(memo).edgeGeometryByKey
    IN  /\ Cardinality(DOMAIN byKey) = Cardinality(JoinedPairs)
        /\ \A u, v \in AllIds :
             IF EdgesJoining(u, v) = {}
             THEN \A key \in DOMAIN byKey : {byKey[key].from, byKey[key].to} # {u, v}
             ELSE /\ buildEdgeKey(u, v) = buildEdgeKey(v, u)
                  /\ buildEdgeKey(u, v) \in DOMAIN byKey
                  /\ IndexedAsDeclared(byKey[buildEdgeKey(u, v)], EdgesJoining(u, v))

\* The pair indexes whose key a segment carries.
PairsOf(seg, path) ==
  {i \in PairIndexes(path) : seg.key = SegmentKey(path[i + 1], path[i + 2], i)}

\* C13. The segments are in the traversal order of the path, each with the
\* from and to of the path at its pair index; a pair u, u has no segment; the
\* keys of one result differ pairwise, also when a pair (u, v) occurs again.
C13_OrderedDistinctKeys ==
  IsSome(memo) =>
    LET path == RoutePathProp(route)
        segs == Get(memo).optimizedSegments
    IN  /\ \A k \in 1..Len(segs) :
             /\ Cardinality(PairsOf(segs[k], path)) = 1
             /\ \A i \in PairsOf(segs[k], path) :
                  /\ segs[k].from = path[i + 1]
                  /\ segs[k].to = path[i + 2]
                  /\ path[i + 1] # path[i + 2]
        /\ \A k, l \in 1..Len(segs) :
             k < l => /\ segs[k].key # segs[l].key
                      /\ \A i \in PairsOf(segs[k], path) :
                           \A j \in PairsOf(segs[l], path) : i < j
        /\ \A i \in PairIndexes(path) :
             path[i + 1] = path[i + 2] =>
               \A k \in 1..Len(segs) :
                 ~(segs[k].from = path[i + 1] /\ segs[k].to = path[i + 2])

\* The pair A, B occurs twice and B, A between them: three segments, three keys.
C13_Witness ==
  /\ IsSome(memo)
  /\ RoutePathProp(route) = <<"A", "B", "A", "B">>
  /\ Len(Get(memo).optimizedSegments) = 3
  /\ Get(memo).optimizedSegments[1].key = "A-B-0"
  /\ Get(memo).optimizedSegments[2].key = "B-A-1"
  /\ Get(memo).optimizedSegments[3].key = "A-B-2"
  /\ Get(memo).optimizedSegments[3].from = "A"
  /\ Get(memo).optimizedSegments[3].to = "B"

\* C14. getPriceColor returns the one fixed colour whenever maxPrice - minPrice
\* is below 0.001, whatever the price; otherwise the hue is 120 - 120 * r with
\* r = (price - minPrice) / (maxPrice - minPrice) clamped to [0, 1], so the
\* hues of minPrice and maxPrice differ, a price at or below minPrice has the
\* hue of minPrice and a price at or above maxPrice has the hue of maxPrice.
C14_PriceColor ==
  IsSome(fuelColor) =>
    LET price == Get(priceArgs).price
        lo == Get(priceArgs).minPrice
        hi == Get(priceArgs).maxPrice
        c == Get(fuelColor)
        r == IF price <= lo THEN 0 ELSE IF price >= hi THEN hi - lo ELSE price - lo
    IN  IF hi - lo < Epsilon
        THEN \A p \in Prices :
               /\ getPriceColor(p, lo, hi) = c
               /\ c = [h |-> <<202, 1>>, s |-> 75, l |-> 42]
        ELSE /\ c.s = 72 /\ c.l = 40
             /\ c.h[2] > 0
             /\ c.h[1] * (hi - lo) = (120 * (hi - lo) - 120 * r) * c.h[2]
             /\ getPriceColor(lo, lo, hi).h = <<120, 1>>
             /\ getPriceColor(hi, lo, hi).h = <<0, 1>>
             /\ price <= lo => c = getPriceColor(lo, lo, hi)
             /\ price >= hi => c = getPriceColor(hi, lo, hi)

\* A price a third of the way up the range 1 .. 4 has the hue 80.
C14_Witness ==
  /\ priceArgs = Some([price |-> 2, minPrice |-> 1, maxPrice |-> 4])
  /\ fuelColor = Some([h |-> <<80, 1>>, s |-> 72, l |-> 40])

\* C15. At most one request is in flight at any time: the initial fetch is
\* issued once, as the first call, and every later call is a form submit made
\* while loading is false and from and to are set; loading is true exactly
\* while a request is in flight.
C15_OneInFlight ==
  /\ [](/\ Cardinality(inflight) <= 1
        /\ loading <=> inflight # {}
        /\ \A req \in inflight : req.useCurrentStartGoal <=> req.id # 1)
  /\ [][StepOf("start") =>
          /\ inflight = {}
          /\ IF didInitialFetch
             THEN ~loading /\ from # "" /\ to # "" /\ nextId > 1
             ELSE nextId = 1]_vars

\* The second call, a form submit, is the only one in flight.
C15_Witness ==
  /\ loading
  /\ Cardinality(inflight) = 1
  /\ \E req \in inflight :
       req.id = 2 /\ req.useCurrentStartGoal /\ req.selectedFrom # "" /\ req.selectedTo # ""

\* C16. In every reachable state from and to are each unset or the id of a
\* location of the node list held at that moment.
C16_SelectionKnown ==
  /\ from = "" \/ from \in availableNodeIds
  /\ to = "" \/ to \in availableNodeIds

\* C17. A fetch that fails before any response data is processed (fetch
\* rejected, status not 2xx, body not JSON) leaves nodes, edges, from, to,
\* algorithm and seed as they were; of the page state only route, baseline
\* path, error and loading change.
C17_EarlyFailureFrame ==
  [][(StepOf("fail") /\ Get(lastOutcome').kind # "json") =>
       /\ UNCHANGED <<nodes, edges, comparison, from, to, algorithm, seed>>
       /\ route' = Null
       /\ baselinePath' = <<>>
       /\ error' = Some(ErrorMessage(Get(lastOutcome').kind))
       /\ loading' = FALSE]_vars

\* The second call was answered with a status that is not 2xx: the locations
\* and the selection of the first response are still held, the route is not.
C17_Witness ==
  /\ recent = << <<"start", 2>>, <<"fail", 2>> >>
  /\ Get(lastOutcome).kind = "status"
  /\ nodes = NodesAB /\ edges = EdgesAB
  /\ from = "A" /\ to = "B"
  /\ route = Null /\ baselinePath = <<>>
  /\ IsSome(error)
  /\ ~loading

====
